---- MODULE Spec2Model ----
(***************************************************************************)
(* Denormalised aggregates of the Nomad Cafes backend:                     *)
(*   - Location.cafe_count, maintained by the Cafe signals                 *)
(*     (apps/cafes/signals.py);                                            *)
(*   - Cafe.rating_* / rating_count, recomputed by                         *)
(*     Cafe.update_rating_stats (apps/cafes/models.py) on review writes    *)
(*     (apps/reviews/models.py, apps/reviews/api/).                        *)
(* The database runs in autocommit mode (config/settings.py sets no        *)
(* ATOMIC_REQUESTS), so every ORM statement of a handler is one step: the  *)
(* step operators below take a frame (database, position, in-memory        *)
(* objects) to the next frame.  A sequential specification runs a handler  *)
(* to its end in one action; a concurrent one takes one step at a time.    *)
(***************************************************************************)
EXTENDS Integers, FiniteSets, Sequences, TLC

\* ------------------------------------------------------------------ bounds
NumLocations == 3
NumCafes == 2
NumUsers == 3
NumProcs == 2
MaxReviews == 3
MaxRequests == 2
MaxFavorites == 2
NumTokens == 3
NumResetTokens == 2
NumPasswords == 2
NumOpenCafes == 1

Locations == 1..NumLocations
Cafes == 1..NumCafes
Users == 1..NumUsers
Procs == 1..NumProcs

\* Users whose role is admin (User.is_admin).
Admins == {1}

\* Python's None / SQL NULL for an id or a rating (neither is ever 0).
None == 0

\* The validators of Review.rating_* and the minimum review length.
MinRating == 1
MaxRating == 5
MinTextLen == 10

VARIABLES
  cafe_count,   \* Location.cafe_count, per location row
  cafes,        \* the cafes table: cafe id -> row
  reviews,      \* the reviews table: a set of rows
  favorites,    \* the favorites table: a set of rows
  pc,           \* where each request worker is in its handler
  req,          \* the in-memory objects of each worker's request
  status,       \* the HTTP status of the last request answered
  list_cache,   \* the cached response of GET /api/cafes/ (cache_page)
  seen,         \* the last read's response, if no write was served since
  started,      \* the number of concurrent requests started
  jwt,          \* the refresh tokens issued and blacklisted, the cookies last set
  users,        \* the users table: user id -> row
  reset_tokens  \* the number of password-reset tokens generated so far

vars ==
  <<cafe_count, cafes, reviews, favorites, pc, req, status, list_cache, seen,
    started, jwt, users, reset_tokens>>

\* ------------------------------------------------------------ rows
\* Averages are DecimalField(max_digits=3, decimal_places=2): stored in hundredths.
ZeroStats ==
  [rating_avg |-> 0, rating_wifi |-> 0, rating_power |-> 0,
   rating_noise |-> 0, rating_coffee |-> 0, rating_count |-> 0]

\* The columns of a cafe the aggregates depend on.
CafeRow(location_id, is_active, stats) ==
  [location_id |-> location_id, is_active |-> is_active, stats |-> stats]

NoOld == [found |-> FALSE, location_id |-> None, is_active |-> FALSE]

NoInst == [id |-> None, location_id |-> None, is_active |-> FALSE, stats |-> ZeroStats]

\* A text is its stripped length and the whitespace around it.
Text(pad, body) == [pad |-> pad, body |-> body]

Strip(text) == Text(0, text.body)

TextLen(text) == text.pad + text.body

NoRatings ==
  [rating_overall |-> None, rating_wifi |-> None, rating_power |-> None,
   rating_noise |-> None, rating_coffee |-> None]

ReviewRow(id, user, cafe, is_active, ratings, text) ==
  [id |-> id, user |-> user, cafe |-> cafe, is_active |-> is_active,
   rating_overall |-> ratings.rating_overall, rating_wifi |-> ratings.rating_wifi,
   rating_power |-> ratings.rating_power, rating_noise |-> ratings.rating_noise,
   rating_coffee |-> ratings.rating_coffee, text |-> text]

NoReview == ReviewRow(<<None, None, 0>>, None, None, FALSE, NoRatings, Text(0, 0))

FavoriteRow(id, user, cafe) == [id |-> id, user |-> user, cafe |-> cafe]

NoFavorite == FavoriteRow(<<None, None, 0>>, None, None)

\* The in-memory objects of a request.
NoReq ==
  [op |-> "none", inst |-> NoInst, old |-> NoOld, todo |-> <<>>,
   review |-> NoReview, favorite |-> NoFavorite, cookie |-> None,
   update_fields |-> FALSE, lazy_cafe |-> FALSE,
   again |-> 0, ok |-> 0]

Frame(db, label, r, code) == [db |-> db, pc |-> label, r |-> r, status |-> code]

\* The request is answered.
Done(s, code) == [s EXCEPT !.pc = "idle", !.r = NoReq, !.status = code]

Drop(f, k) == [x \in (DOMAIN f) \ {k} |-> f[x]]

Put(f, k, v) == [x \in (DOMAIN f) \cup {k} |-> IF x = k THEN v ELSE f[x]]

\* An in-memory Cafe instance loaded from its row.
CafeInstance(cafeRows, c) ==
  [id |-> c, location_id |-> cafeRows[c].location_id,
   is_active |-> cafeRows[c].is_active, stats |-> cafeRows[c].stats]

\* ------------------------------------------------------- cafes/signals.py

\* cafe_pre_save: the stored location and is_active, or None/None.
cafe_pre_save(cafeRows, instance) ==
  IF instance.id \in DOMAIN cafeRows
    THEN [found |-> TRUE, location_id |-> cafeRows[instance.id].location_id,
          is_active |-> cafeRows[instance.id].is_active]
    ELSE NoOld

\* A mutant of OldActiveDiffers: every save counts as a change of is_active.
OldActiveDiffers_always(instance, old) == TRUE

\* "old_is_active != instance.is_active", where old_is_active may be None.
OldActiveDiffers(instance, old) ==
  (~old.found) \/ (old.is_active # instance.is_active)

\* A mutant of cafe_post_save: a move decrements the old location whether or
\* not the cafe was active there.
cafe_post_save_anyold(instance, old, created) ==
  IF created
    THEN IF instance.is_active THEN << <<instance.location_id, 1>> >> ELSE <<>>
    ELSE IF old.location_id # None /\ old.location_id # instance.location_id
      THEN << <<old.location_id, 0 - 1>> >>
           \o (IF instance.is_active
              THEN << <<instance.location_id, 1>> >> ELSE <<>>)
      ELSE IF OldActiveDiffers(instance, old)
        THEN << <<instance.location_id, IF instance.is_active THEN 1 ELSE 0 - 1>> >>
        ELSE <<>>

\* cafe_post_save: the update_location_cafe_count calls it makes, in order.
cafe_post_save(instance, old, created) ==
  IF created
    THEN IF instance.is_active THEN << <<instance.location_id, 1>> >> ELSE <<>>
    ELSE IF old.location_id # None /\ old.location_id # instance.location_id
      THEN (IF old.found /\ old.is_active
              THEN << <<old.location_id, 0 - 1>> >> ELSE <<>>)
           \o (IF instance.is_active
              THEN << <<instance.location_id, 1>> >> ELSE <<>>)
      ELSE IF OldActiveDiffers(instance, old)
        THEN << <<instance.location_id, IF instance.is_active THEN 1 ELSE 0 - 1>> >>
        ELSE <<>>

\* cafe_post_delete: the call it makes.
cafe_post_delete(instance) ==
  IF instance.is_active THEN << <<instance.location_id, 0 - 1>> >> ELSE <<>>

\* A mutant of update_location_cafe_count: a location without a row gets one.
update_location_cafe_count_upsert(counts, location_id, delta) ==
  [l \in (DOMAIN counts) \cup {location_id} |->
     IF l = location_id THEN (IF l \in DOMAIN counts THEN counts[l] ELSE 0) + delta
     ELSE counts[l]]

\* A mutant of update_location_cafe_count: decrements are dropped.
update_location_cafe_count_nodec(counts, location_id, delta) ==
  IF location_id # None /\ location_id \in DOMAIN counts /\ delta > 0
    THEN [counts EXCEPT ![location_id] = @ + delta]
    ELSE counts

\* update_location_cafe_count: one UPDATE ... SET cafe_count = cafe_count + delta.
update_location_cafe_count(counts, location_id, delta) ==
  IF location_id # None /\ location_id \in DOMAIN counts
    THEN [counts EXCEPT ![location_id] = @ + delta]
    ELSE counts

\* A mutant of CountUpdateRejected: no CHECK constraint on cafe_count.
CountUpdateRejected_off(counts, location_id, delta) == FALSE

\* Location.cafe_count is a PositiveIntegerField: the database rejects an
\* UPDATE that would store a negative count (IntegrityError).
CountUpdateRejected(counts, location_id, delta) ==
  \E l \in DOMAIN counts : update_location_cafe_count(counts, location_id, delta)[l] < 0

\* ------------------------------------------ Cafe.update_rating_stats

ActiveReviews(rows, c) == {r \in rows : r.cafe = c /\ r.is_active}

RECURSIVE SumField(_, _)
SumField(rows, f) ==
  IF rows = {} THEN 0
  ELSE LET r == CHOOSE x \in rows : TRUE IN r[f] + SumField(rows \ {r}, f)

\* A mutant of Avg: a NULL rating counts as 0.
AvgNullAsZero(rows, f) == [n |-> SumField(rows, f), d |-> Cardinality(rows)]

\* Avg(f): SQL AVG skips the rows where f is NULL; d = 0 stands for its NULL result.
Avg(rows, f) ==
  LET rated == {r \in rows : r[f] # None}
  IN [n |-> SumField(rated, f), d |-> Cardinality(rated)]

\* "stats[...] or 0", then the float stored in a DecimalField(3, 2): rounded to
\* two decimal places, half to even (decimal.Context's default), in hundredths.
to_decimal(avg) ==
  IF avg.d = 0 THEN 0
  ELSE LET q == (100 * avg.n) \div avg.d
           rem == (100 * avg.n) % avg.d
       IN IF 2 * rem > avg.d THEN q + 1
          ELSE IF 2 * rem = avg.d THEN q + (q % 2)
          ELSE q

\* A mutant of the aggregate query: inactive reviews are counted too.
rating_stats_all(rows, c) ==
  LET R == {r \in rows : r.cafe = c}
  IN [rating_avg |-> to_decimal(Avg(R, "rating_overall")),
      rating_wifi |-> to_decimal(Avg(R, "rating_wifi")),
      rating_power |-> to_decimal(Avg(R, "rating_power")),
      rating_noise |-> to_decimal(Avg(R, "rating_noise")),
      rating_coffee |-> to_decimal(Avg(R, "rating_coffee")),
      rating_count |-> Cardinality(R)]

\* The aggregate query of update_rating_stats and the six fields it assigns.
rating_stats(rows, c) ==
  LET R == ActiveReviews(rows, c)
  IN [rating_avg |-> to_decimal(Avg(R, "rating_overall")),
      rating_wifi |-> to_decimal(Avg(R, "rating_wifi")),
      rating_power |-> to_decimal(Avg(R, "rating_power")),
      rating_noise |-> to_decimal(Avg(R, "rating_noise")),
      rating_coffee |-> to_decimal(Avg(R, "rating_coffee")),
      rating_count |-> Cardinality(R)]

\* --------------------------------------------- reviews/api/serializers.py

\* Min/MaxValueValidator of a rating field; a nullable field may be None.
RatingInRange(value) == MinRating <= value /\ value <= MaxRating

ValidRatings(ratings) ==
  /\ RatingInRange(ratings.rating_overall)
  /\ \A f \in {"rating_wifi", "rating_power", "rating_noise", "rating_coffee"} :
        ratings[f] = None \/ RatingInRange(ratings[f])

\* validate_rating_overall
validate_rating_overall(value) == 1 <= value /\ value <= 5

\* A mutant of validate_text: any text passes.
validate_text_any(text) == TRUE

\* validate_text
validate_text(text) == ~(TextLen(Strip(text)) < MinTextLen)

\* ReviewCreateSerializer.validate: the user has no review of the cafe yet.
validate(rows, user, cafe) == ~(\E r \in rows : r.user = user /\ r.cafe = cafe)

\* A mutant of the unique_together constraint: no constraint.
UniqueTogether_off(rows, user, cafe) == TRUE

\* Review.Meta.unique_together = ["cafe", "user"], checked by the INSERT.
UniqueTogether(rows, user, cafe) == ~(\E r \in rows : r.user = user /\ r.cafe = cafe)

\* A fresh primary key (uuid4) for a review of cafe by user.
NewReviewId(rows, user, cafe) ==
  <<user, cafe, Cardinality({r \in rows : r.user = user /\ r.cafe = cafe})>>

\* CafeReviewViewSet.get_cafe: get_object_or_404(Cafe, slug=..., is_active=True)
get_cafe(cafeRows, c) == c \in DOMAIN cafeRows /\ cafeRows[c].is_active

\* A mutant of get_queryset: inactive reviews are listed too.
get_queryset_all(db, c) == {r \in db.reviews : r.cafe = c}

\* CafeReviewViewSet.get_queryset
get_queryset(db, c) == {r \in db.reviews : r.cafe = c /\ r.is_active}

\* UserReviewViewSet.get_queryset
user_reviews(db, user) == {r \in db.reviews : r.user = user /\ r.is_active}

\* IsOwnerOrAdmin.has_object_permission
has_object_permission(user, obj) == user \in Admins \/ obj.user = user

\* ------------------------------------------------- the steps of a handler

\* What follows a completed Cafe.save(): a second update_rating_stats call
\* (CafeReviewViewSet.destroy makes two), or the response.
Continue(s) ==
  IF s.r.again > 0
    THEN [s EXCEPT !.pc = "stats_read", !.r.again = @ - 1]
    ELSE Done(s, s.r.ok)

AfterWrite(s) == IF s.r.todo = <<>> THEN Continue(s) ELSE [s EXCEPT !.pc = "post_save"]

\* Model.save_base sends pre_save.
PreSaveStep(s) ==
  [s EXCEPT !.r.old = cafe_pre_save(s.db.cafes, s.r.inst), !.pc = "write"]

\* A mutant of WriteStep: update_fields is ignored, every column is written.
WriteStep_allfields(s) ==
  LET inst == s.r.inst
      exists == inst.id \in DOMAIN s.db.cafes
  IN AfterWrite(
       [s EXCEPT !.db.cafes = Put(@, inst.id,
                     CafeRow(inst.location_id, inst.is_active, inst.stats)),
                 !.r.todo = cafe_post_save(inst, s.r.old, ~exists)])

\* Model.save_base writes the row and sends post_save.  A full save is an
\* UPDATE of every column, or an INSERT when no row was updated; a save with
\* update_fields raises DatabaseError when no row was updated.
WriteStep(s) ==
  LET inst == s.r.inst
      exists == inst.id \in DOMAIN s.db.cafes
  IN IF s.r.update_fields
       THEN IF ~exists
              THEN Done(s, 500)
              ELSE AfterWrite(
                     [s EXCEPT !.db.cafes[inst.id].stats = inst.stats,
                               !.r.todo = cafe_post_save(inst, s.r.old, FALSE)])
       ELSE AfterWrite(
              [s EXCEPT !.db.cafes = Put(@, inst.id,
                            CafeRow(inst.location_id, inst.is_active, inst.stats)),
                        !.r.todo = cafe_post_save(inst, s.r.old, ~exists)])

\* One update_location_cafe_count call of the post_save handler.
CountUpdateStep(s) ==
  LET u == Head(s.r.todo)
  IN IF CountUpdateRejected(s.db.cafe_count, u[1], u[2])
       THEN Done(s, 500)
       ELSE LET t == [s EXCEPT !.db.cafe_count =
                          update_location_cafe_count(@, u[1], u[2]),
                               !.r.todo = Tail(@)]
            IN IF t.r.todo = <<>> THEN Continue(t) ELSE t

\* A mutant of Cascade: the favorites of the cafe stay.
CascadeReviewsOnly(db, c) == [db EXCEPT !.reviews = {r \in @ : r.cafe # c}]

\* on_delete=CASCADE of Review.cafe and of Favorite.cafe: the rows that
\* reference cafe c go with it.
Cascade(db, c) ==
  [db EXCEPT !.reviews = {r \in @ : r.cafe # c},
             !.favorites = {f \in @ : f.cafe # c}]

\* Cafe.delete(): Collector.delete removes the cafe row and the rows that
\* reference it and sends post_delete, all in one transaction.
DeleteRowStep(s) ==
  LET inst == s.r.inst
      todo == cafe_post_delete(inst)
      counts == IF todo = <<>> THEN s.db.cafe_count
                ELSE update_location_cafe_count(s.db.cafe_count, todo[1][1], todo[1][2])
  IN IF todo # <<>> /\ CountUpdateRejected(s.db.cafe_count, todo[1][1], todo[1][2])
       THEN Done(s, 500)
       ELSE Done([s EXCEPT !.db = [Cascade(@, inst.id) EXCEPT
                                      !.cafes = Drop(@, inst.id),
                                      !.cafe_count = counts]], 204)

\* FavoriteSerializer.validate_cafe_id
validate_cafe_id(cafeRows, c) == c \in DOMAIN cafeRows /\ cafeRows[c].is_active

\* A mutant of the unique_together constraint of Favorite: no constraint.
FavoriteUnique_off(rows, user, cafe) == TRUE

\* Favorite.Meta.unique_together = ["user", "cafe"], checked by the INSERT.
FavoriteUnique(rows, user, cafe) == ~(\E f \in rows : f.user = user /\ f.cafe = cafe)

\* A fresh primary key (uuid4) for a favorite.
NewFavoriteId(rows, user, cafe) ==
  <<user, cafe, Cardinality({f \in rows : f.user = user /\ f.cafe = cafe})>>

Favorited(rows, fav) == \E f \in rows : f.user = fav.user /\ f.cafe = fav.cafe

\* get_or_create: self.get(user=..., cafe_id=...); a row found is returned with
\* created = False, and FavoriteSerializer.create raises ValidationError.
FavGetStep(s) ==
  IF Favorited(s.db.favorites, s.r.favorite) THEN Done(s, 400)
  ELSE [s EXCEPT !.pc = "fav_insert"]

\* get_or_create: self.create(...) in its own transaction.atomic; an
\* IntegrityError (unique_together, or the foreign key to a cafe that is gone)
\* is caught and the get is tried again.
FavInsertStep(s) ==
  LET fav == s.r.favorite
  IN IF fav.cafe \in DOMAIN s.db.cafes
          /\ FavoriteUnique(s.db.favorites, fav.user, fav.cafe)
       THEN Done([s EXCEPT !.db.favorites = @ \cup
                    {[fav EXCEPT !.id = NewFavoriteId(s.db.favorites, fav.user, fav.cafe)]}],
                 s.r.ok)
       ELSE [s EXCEPT !.pc = "fav_reget"]

\* get_or_create after the IntegrityError: the row found gives created = False
\* (400); DoesNotExist re-raises the IntegrityError (500).
FavRegetStep(s) ==
  IF Favorited(s.db.favorites, s.r.favorite) THEN Done(s, 400) ELSE Done(s, 500)

\* FavoriteViewSet.destroy: get_queryset().filter(cafe_id=...).delete()
FavDeleteStep(s) ==
  LET hit == {f \in s.db.favorites :
                f.user = s.r.favorite.user /\ f.cafe = s.r.favorite.cafe}
  IN Done([s EXCEPT !.db.favorites = @ \ hit], IF hit # {} THEN 204 ELSE 404)

\* Review.save / the save of CafeReviewViewSet.destroy: super().save().
ReviewWriteStep(s) ==
  LET rev == s.r.review
      stored == {r \in s.db.reviews : r.id = rev.id}
      others == s.db.reviews \ stored
  IN CASE s.r.op = "review_destroy" ->
            \* save(update_fields=["is_active"]): DatabaseError if no row matched
            IF stored = {}
              THEN Done(s, 500)
              ELSE [s EXCEPT !.db.reviews =
                        others \cup {[r EXCEPT !.is_active = rev.is_active] : r \in stored},
                             !.pc = "stats_read"]
       [] s.r.op = "review_create" ->
            \* INSERT of a new row
            IF rev.cafe \in DOMAIN s.db.cafes
                 /\ UniqueTogether(s.db.reviews, rev.user, rev.cafe)
              THEN [s EXCEPT !.db.reviews = @ \cup
                        {[rev EXCEPT !.id = NewReviewId(s.db.reviews, rev.user, rev.cafe)]},
                             !.pc = "stats_read"]
              ELSE Done(s, 500)
       [] OTHER ->
            \* a full save: UPDATE of every column, or INSERT if no row matched
            IF rev.cafe \in DOMAIN s.db.cafes /\ UniqueTogether(others, rev.user, rev.cafe)
              THEN [s EXCEPT !.db.reviews = others \cup {rev}, !.pc = "stats_read"]
              ELSE Done(s, 500)

\* update_rating_stats up to its self.save(): self.cafe is fetched on first
\* use, the aggregate query runs, the six fields are assigned.
StatsReadStep(s) ==
  LET c == s.r.review.cafe
  IN IF s.r.lazy_cafe /\ c \notin DOMAIN s.db.cafes
       THEN Done(s, 500)
       ELSE LET inst == IF s.r.lazy_cafe THEN CafeInstance(s.db.cafes, c) ELSE s.r.inst
            IN [s EXCEPT !.r.inst = [inst EXCEPT !.stats = rating_stats(s.db.reviews, c)],
                         !.r.lazy_cafe = FALSE,
                         !.r.update_fields = TRUE,
                         !.pc = "pre_save"]

StepFn(s) ==
  CASE s.pc = "pre_save" -> PreSaveStep(s)
    [] s.pc = "write" -> WriteStep(s)
    [] s.pc = "post_save" -> CountUpdateStep(s)
    [] s.pc = "delete" -> DeleteRowStep(s)
    [] s.pc = "review_write" -> ReviewWriteStep(s)
    [] s.pc = "stats_read" -> StatsReadStep(s)
    [] s.pc = "fav_get" -> FavGetStep(s)
    [] s.pc = "fav_insert" -> FavInsertStep(s)
    [] s.pc = "fav_reget" -> FavRegetStep(s)
    [] s.pc = "fav_delete" -> FavDeleteStep(s)
    [] OTHER -> s

\* A handler run to its response.
RECURSIVE Run(_)
Run(s) == IF s.pc = "idle" THEN s ELSE Run(StepFn(s))

\* ------------------------------------------------- the handlers' first step

\* Cafe.objects.create(location=l, is_active=a): a new instance with a fresh uuid.
CafeCreateBegin(db, c, l, a) ==
  Frame(db, "pre_save",
        [NoReq EXCEPT !.op = "cafe_create", !.ok = 201,
                      !.inst = [id |-> c, location_id |-> l, is_active |-> a,
                                stats |-> ZeroStats]], 0)

\* Load a cafe, assign location and is_active (possibly the values it has),
\* and call save().
CafeUpdateBegin(db, c, l, a) ==
  Frame(db, "pre_save",
        [NoReq EXCEPT !.op = "cafe_update", !.ok = 200,
                      !.inst = [CafeInstance(db.cafes, c) EXCEPT !.location_id = l,
                                                                !.is_active = a]], 0)

\* Load a cafe and call delete().
CafeDeleteBegin(db, c) ==
  Frame(db, "delete",
        [NoReq EXCEPT !.op = "cafe_delete", !.inst = CafeInstance(db.cafes, c)], 0)

\* CafeReviewViewSet.create up to serializer.save(): get_cafe, is_valid.
ReviewCreateBegin(db, user, c, ratings, text) ==
  IF ~get_cafe(db.cafes, c) THEN Frame(db, "idle", NoReq, 404)
  ELSE IF ~(/\ ValidRatings(ratings)
            /\ validate_rating_overall(ratings.rating_overall)
            /\ validate_text(text)
            /\ validate(db.reviews, user, c))
    THEN Frame(db, "idle", NoReq, 400)
    ELSE Frame(db, "review_write",
               [NoReq EXCEPT !.op = "review_create", !.ok = 201,
                     !.inst = CafeInstance(db.cafes, c),
                     !.review = ReviewRow(NewReviewId(db.reviews, user, c), user, c,
                                          TRUE, ratings, Strip(text))], 0)

\* ModelViewSet.update up to instance.save(): get_object, the permissions,
\* is_valid, the fields assigned.
ReviewUpdateBegin(db, user, c, id, ratings, text) ==
  IF ~get_cafe(db.cafes, c) \/ ~(\E r \in get_queryset(db, c) : r.id = id)
    THEN Frame(db, "idle", NoReq, 404)
  ELSE LET obj == CHOOSE r \in get_queryset(db, c) : r.id = id
       IN IF ~has_object_permission(user, obj) THEN Frame(db, "idle", NoReq, 403)
          ELSE IF ~(/\ ValidRatings(ratings)
                    /\ validate_rating_overall(ratings.rating_overall)
                    /\ validate_text(text))
            THEN Frame(db, "idle", NoReq, 400)
            ELSE Frame(db, "review_write",
                       [NoReq EXCEPT !.op = "review_update", !.ok = 200,
                             !.lazy_cafe = TRUE,
                             !.review = ReviewRow(obj.id, obj.user, obj.cafe,
                                                  obj.is_active, ratings, Strip(text))], 0)

\* CafeReviewViewSet.destroy up to instance.save(update_fields=["is_active"]).
ReviewDestroyBegin(db, user, c, id) ==
  IF ~get_cafe(db.cafes, c) \/ ~(\E r \in get_queryset(db, c) : r.id = id)
    THEN Frame(db, "idle", NoReq, 404)
  ELSE LET obj == CHOOSE r \in get_queryset(db, c) : r.id = id
       IN IF ~has_object_permission(user, obj) THEN Frame(db, "idle", NoReq, 403)
          ELSE Frame(db, "review_write",
                     [NoReq EXCEPT !.op = "review_destroy", !.ok = 204,
                           !.lazy_cafe = TRUE, !.again = 1,
                           !.review = [obj EXCEPT !.is_active = FALSE]], 0)

\* FavoriteViewSet.create up to serializer.save(): is_valid.
FavoriteCreateBegin(db, user, c) ==
  IF ~validate_cafe_id(db.cafes, c) THEN Frame(db, "idle", NoReq, 400)
  ELSE Frame(db, "fav_get",
             [NoReq EXCEPT !.op = "favorite_create", !.ok = 201,
                           !.favorite = FavoriteRow(NoFavorite.id, user, c)], 0)

\* FavoriteViewSet.destroy
FavoriteDestroyBegin(db, user, c) ==
  Frame(db, "fav_delete",
        [NoReq EXCEPT !.op = "favorite_destroy",
                      !.favorite = FavoriteRow(NoFavorite.id, user, c)], 0)

\* ------------------------------------------------------------ the inputs
RatingInputs ==
  { [rating_overall |-> 5, rating_wifi |-> 5, rating_power |-> 4,
     rating_noise |-> None, rating_coffee |-> None],
    [rating_overall |-> 4, rating_wifi |-> 4, rating_power |-> None,
     rating_noise |-> 2, rating_coffee |-> None],
    [rating_overall |-> MaxRating + 1, rating_wifi |-> None, rating_power |-> None,
     rating_noise |-> None, rating_coffee |-> None],
    [rating_overall |-> MinRating - 1, rating_wifi |-> 3, rating_power |-> None,
     rating_noise |-> None, rating_coffee |-> None] }

ShortText == Text(1, MinTextLen - 2)

GoodText == Text(1, MinTextLen)

\* The request bodies: the valid ratings with a valid text, and one body for
\* each way of being invalid.
ReviewInputs ==
  {[ratings |-> x, text |-> GoodText] : x \in RatingInputs}
    \cup {[ratings |-> x, text |-> ShortText] :
            x \in {y \in RatingInputs : y.rating_overall = MaxRating}}

\* ------------------------------------------------------------ JWT cookies
\* The jti of the refresh tokens RefreshToken.for_user can issue.
Jtis == 1..NumTokens

\* A refresh cookie that no RefreshToken.for_user of this server produced.
BadToken == NumTokens + 1

\* No token issued, no cookie set.
NoJwt ==
  [outstanding |-> {}, owner |-> << >>, blacklisted |-> {}, expired |-> {},
   cookies |-> "kept", refresh_out |-> None]

ROTATE_REFRESH_TOKENS == TRUE

BLACKLIST_AFTER_ROTATION == TRUE

\* RefreshToken(token) raises TokenError: the token is not one this server
\* signed, or it is past REFRESH_TOKEN_LIFETIME, or it is blacklisted.
TokenError(j, t) == t \notin j.outstanding \/ t \in j.expired \/ t \in j.blacklisted

\* A mutant of blacklist: nothing is recorded.
blacklist_off(j, t) == j

\* RefreshToken.blacklist()
blacklist(j, t) == [j EXCEPT !.blacklisted = @ \cup {t}]

NewJti(j) == Cardinality(j.outstanding) + 1

\* RefreshToken.for_user(user)
for_user(j, u) ==
  [j EXCEPT !.outstanding = @ \cup {NewJti(j)}, !.owner = Put(@, NewJti(j), u)]

set_jwt_cookies(j, refresh) == [j EXCEPT !.cookies = "set", !.refresh_out = refresh]

delete_jwt_cookies(j) == [j EXCEPT !.cookies = "deleted", !.refresh_out = None]

\* A response that sets and deletes no cookie.
NoCookies(j) == [j EXCEPT !.cookies = "kept", !.refresh_out = None]

Reply(j, code) == [jwt |-> j, status |-> code]

\* LoginView.post: ok says whether LoginSerializer accepts the credentials.
LoginPost(j, u, ok) ==
  IF ~ok THEN Reply(NoCookies(j), 400)
  ELSE Reply(set_jwt_cookies(for_user(j, u), NewJti(j)), 200)

\* LogoutView: IsAuthenticated (authed: the request carries a valid access
\* token), then post with the refresh cookie (None: no cookie).
LogoutPost(j, authed, cookie) ==
  IF ~authed THEN Reply(NoCookies(j), 401)
  ELSE LET j1 == IF cookie # None /\ ~TokenError(j, cookie)
                   THEN blacklist(j, cookie) ELSE j
       IN Reply(delete_jwt_cookies(j1), 200)

\* TokenRefreshView.post with the refresh cookie (None: no cookie).
TokenRefreshPost(j, cookie) ==
  IF cookie = None THEN Reply(NoCookies(j), 401)
  ELSE IF TokenError(j, cookie) THEN Reply(delete_jwt_cookies(j), 401)
  ELSE IF ROTATE_REFRESH_TOKENS
    THEN LET j1 == IF BLACKLIST_AFTER_ROTATION THEN blacklist(j, cookie) ELSE j
         IN Reply(set_jwt_cookies(for_user(j1, j.owner[cookie]), NewJti(j1)), 200)
    ELSE Reply(set_jwt_cookies(j, cookie), 200)

\* ------------------------------------------------------------ accounts
\* The empty string of a CharField(blank=True).
Blank == 0

Passwords == 1..NumPasswords

\* User.hash_token: SHA256, which maps different tokens to different hashes,
\* none of them the blank string.
hash_token(token) == 2 * token + 1

\* The columns of a user the password reset depends on.  password_reset_sent_at
\* is "none" (NULL), "fresh" (at most 24 hours ago) or "old".
UserRow(password, is_active) ==
  [password |-> password, is_active |-> is_active,
   password_reset_token |-> Blank, password_reset_sent_at |-> "none"]

\* The users before any reset: those of A active, all with the first password.
UsersAtStart(A) == [u \in Users |-> UserRow(1, u \in A)]

\* The addresses a reset can be requested for: each user's, and one of nobody.
Emails == 1..(NumUsers + 1)

\* A token no set_password_reset_token generated.
BadResetToken == NumResetTokens + 1

\* User.set_password_reset_token: secrets.token_urlsafe(32) as a fresh token
set_password_reset_token(row, token) ==
  [row EXCEPT !.password_reset_token = hash_token(token),
              !.password_reset_sent_at = "fresh"]

\* User.verify_password_reset_token
verify_password_reset_token(row, token) ==
  /\ row.password_reset_token # Blank
  /\ token # Blank
  /\ hash_token(token) = row.password_reset_token
  /\ row.password_reset_sent_at # "old"

\* A mutant of clear_password_reset_token: the token stays.
clear_password_reset_token_off(row) == row

\* User.clear_password_reset_token
clear_password_reset_token(row) ==
  [row EXCEPT !.password_reset_token = Blank, !.password_reset_sent_at = "none"]

\* User.find_by_password_reset_token: the rows objects.get chooses from
find_by_password_reset_token(rows, token) ==
  {u \in DOMAIN rows :
     rows[u].password_reset_token = hash_token(token) /\ rows[u].is_active}

ResetReply(rows, n, code, message) ==
  [users |-> rows, reset_tokens |-> n, status |-> code, message |-> message]

\* A mutant of PasswordResetRequestPost: an unknown address is reported.
PasswordResetRequestPost_tells(rows, n, email) ==
  IF email \in DOMAIN rows /\ rows[email].is_active
    THEN ResetReply([rows EXCEPT ![email] = set_password_reset_token(@, n + 1)],
                    n + 1, 200, "if an account exists")
    ELSE ResetReply(rows, n, 400, "no such account")

\* PasswordResetRequestView.post with a well-formed address:
\* PasswordResetRequestSerializer.save, the mail, the response.
PasswordResetRequestPost(rows, n, email) ==
  IF email \in DOMAIN rows /\ rows[email].is_active
    THEN ResetReply([rows EXCEPT ![email] = set_password_reset_token(@, n + 1)],
                    n + 1, 200, "if an account exists")
    ELSE ResetReply(rows, n, 200, "if an account exists")

\* PasswordResetConfirmView.post: pw_ok says whether validate_new_password
\* accepts the new password.
PasswordResetConfirmPost(rows, n, token, new_password, pw_ok) ==
  LET found == find_by_password_reset_token(rows, token)
  IN IF ~pw_ok THEN ResetReply(rows, n, 400, "new_password")
     ELSE IF found = {} THEN ResetReply(rows, n, 400, "Invalid or expired token")
     ELSE IF Cardinality(found) > 1 THEN ResetReply(rows, n, 500, "")
     ELSE LET u == CHOOSE x \in found : TRUE
          IN IF ~verify_password_reset_token(rows[u], token)
               THEN ResetReply(rows, n, 400, "Token has expired")
               ELSE ResetReply(
                      [rows EXCEPT ![u] = clear_password_reset_token(
                                            [@ EXCEPT !.password = new_password])],
                      n, 200, "Password has been reset successfully")

\* ------------------------------------------------------------ actions
NoSeen == [kind |-> "none", body |-> << >>]

NoCache == [valid |-> FALSE, body |-> << >>]

DB ==
  [cafe_count |-> cafe_count, cafes |-> cafes, reviews |-> reviews,
   favorites |-> favorites]

InFlightOn(c) == {q \in Procs : pc[q] # "idle" /\ req[q].inst.id = c}

AllIdle == \A p \in Procs : pc[p] = "idle"

SetDB(db) ==
  /\ cafe_count' = db.cafe_count
  /\ cafes' = db.cafes
  /\ reviews' = db.reviews
  /\ favorites' = db.favorites

\* The whole handler, as one request served while no other is in flight.
Serve(s) ==
  /\ AllIdle
  /\ SetDB(Run(s).db)
  /\ seen' = NoSeen
  /\ UNCHANGED <<pc, req, list_cache, started, jwt,
               users, reset_tokens>>

\* The same, the response's status kept.
Answer(s) == Serve(s) /\ status' = Run(s).status

Step(p, s) ==
  /\ SetDB(s.db)
  /\ pc' = [pc EXCEPT ![p] = s.pc]
  /\ req' = [req EXCEPT ![p] = s.r]
  /\ seen' = NoSeen
  /\ UNCHANGED <<status, list_cache, jwt,
               users, reset_tokens>>

\* One step of worker p's handler.
Take(p, s) == Step(p, s) /\ UNCHANGED started

\* The first step of a handler, by the first idle worker (the workers are
\* alike).  A request rejected in its first step (404, 403, 400) has done
\* nothing and is no step.
Start(p, s) ==
  /\ pc[p] = "idle"
  /\ \A q \in Procs : q < p => pc[q] # "idle"
  /\ s.pc # "idle"
  /\ started < MaxRequests
  /\ started' = started + 1
  /\ Step(p, s)

Cur(p) == Frame(DB, pc[p], req[p], 0)

CanCreateCafe(c) == c \notin DOMAIN cafes /\ InFlightOn(c) = {}

\* -- cafe writes, whole
CafeCreate(c, l, a) == CanCreateCafe(c) /\ Answer(CafeCreateBegin(DB, c, l, a))

CafeUpdate(c, l, a) == c \in DOMAIN cafes /\ Answer(CafeUpdateBegin(DB, c, l, a))

CafeDelete(c) == c \in DOMAIN cafes /\ Answer(CafeDeleteBegin(DB, c))

\* -- cafe writes, step by step
CafeCreateStart(p, c, l, a) ==
  CanCreateCafe(c) /\ Start(p, CafeCreateBegin(DB, c, l, a))

CafeUpdateStart(p, c, l, a) ==
  c \in DOMAIN cafes /\ Start(p, CafeUpdateBegin(DB, c, l, a))

CafeDeleteStart(p, c) ==
  c \in DOMAIN cafes /\ Start(p, CafeDeleteBegin(DB, c))

CafePreSave(p) == pc[p] = "pre_save" /\ Take(p, PreSaveStep(Cur(p)))

CafeWrite(p) == pc[p] = "write" /\ Take(p, WriteStep(Cur(p)))

CafeCountUpdate(p) == pc[p] = "post_save" /\ Take(p, CountUpdateStep(Cur(p)))

CafeDeleteRow(p) == pc[p] = "delete" /\ Take(p, DeleteRowStep(Cur(p)))

\* -- review writes, whole (the URL names the review's cafe)
ReviewCreate(u, c, in) ==
  /\ Cardinality(reviews) < MaxReviews
  /\ Serve(ReviewCreateBegin(DB, u, c, in.ratings, in.text))
  /\ UNCHANGED status

ReviewUpdate(u, r, in) ==
  /\ Serve(ReviewUpdateBegin(DB, u, r.cafe, r.id, in.ratings, in.text))
  /\ UNCHANGED status

ReviewDestroy(u, r) ==
  /\ Serve(ReviewDestroyBegin(DB, u, r.cafe, r.id))
  /\ UNCHANGED status

\* -- the same, the response's status kept
ReviewCreateAnswered(u, c, in) ==
  /\ Cardinality(reviews) < MaxReviews
  /\ Answer(ReviewCreateBegin(DB, u, c, in.ratings, in.text))

ReviewDestroyAnswered(u, r) == Answer(ReviewDestroyBegin(DB, u, r.cafe, r.id))

\* -- review writes, step by step
ReviewCreateStart(p, u, c, in) ==
  /\ Cardinality(reviews) < MaxReviews
  /\ Start(p, ReviewCreateBegin(DB, u, c, in.ratings, in.text))

ReviewUpdateStart(p, u, r, in) ==
  Start(p, ReviewUpdateBegin(DB, u, r.cafe, r.id, in.ratings, in.text))

ReviewDestroyStart(p, u, r) == Start(p, ReviewDestroyBegin(DB, u, r.cafe, r.id))

ReviewWrite(p) == pc[p] = "review_write" /\ Take(p, ReviewWriteStep(Cur(p)))

StatsRead(p) == pc[p] = "stats_read" /\ Take(p, StatsReadStep(Cur(p)))

\* -- favorites, whole
FavoriteCreate(u, c) ==
  /\ Cardinality(favorites) < MaxFavorites
  /\ Serve(FavoriteCreateBegin(DB, u, c))
  /\ UNCHANGED status

FavoriteDestroy(u, c) ==
  /\ Serve(FavoriteDestroyBegin(DB, u, c))
  /\ UNCHANGED status

\* One step of worker p's handler, the status of the response kept when the
\* step ends the request.
TakeAnswered(p, s) ==
  /\ SetDB(s.db)
  /\ pc' = [pc EXCEPT ![p] = s.pc]
  /\ req' = [req EXCEPT ![p] = s.r]
  /\ status' = IF s.pc = "idle" THEN s.status ELSE status
  /\ seen' = NoSeen
  /\ UNCHANGED <<list_cache, started, jwt, users, reset_tokens>>

\* -- favorites, step by step
FavoriteCreateStart(p, u, c) == Start(p, FavoriteCreateBegin(DB, u, c))

FavoriteDestroyStart(p, u, c) == Start(p, FavoriteDestroyBegin(DB, u, c))

FavGet(p) == pc[p] = "fav_get" /\ TakeAnswered(p, FavGetStep(Cur(p)))

FavInsert(p) == pc[p] = "fav_insert" /\ TakeAnswered(p, FavInsertStep(Cur(p)))

FavReget(p) == pc[p] = "fav_reget" /\ TakeAnswered(p, FavRegetStep(Cur(p)))

FavDelete(p) == pc[p] = "fav_delete" /\ TakeAnswered(p, FavDeleteStep(Cur(p)))

CafeDeleteRowAnswered(p) == pc[p] = "delete" /\ TakeAnswered(p, DeleteRowStep(Cur(p)))

\* Cafe.save as CafeWrite, the status of the response kept when the save ends
\* the request.
CafeWriteAnswered(p) ==
  /\ pc[p] = "write"
  /\ LET s == WriteStep(Cur(p))
     IN /\ SetDB(s.db)
        /\ pc' = [pc EXCEPT ![p] = s.pc]
        /\ req' = [req EXCEPT ![p] = s.r]
        /\ status' = IF s.pc = "idle" THEN s.status ELSE status
  /\ seen' = NoSeen
  /\ UNCHANGED <<list_cache, started, jwt, users, reset_tokens>>

\* An exception out of update_rating_stats (its aggregate query or its
\* Cafe.save raising a database error): the request ends with a 500.  Nothing
\* wraps Review.save in a transaction, so what it wrote stays committed.
AggregateFails(p) ==
  /\ pc[p] \in {"stats_read", "pre_save", "write"}
  /\ req[p].op \in {"review_create", "review_update", "review_destroy"}
  /\ Take(p, Done(Cur(p), 500))

\* -- the auth endpoints, each request served whole
AuthServe(s) ==
  /\ AllIdle
  /\ jwt' = s.jwt
  /\ status' = s.status
  /\ UNCHANGED <<cafe_count, cafes, reviews, favorites, pc, req, list_cache, seen,
               started, users, reset_tokens>>

\* The refresh cookies a client can present.
RefreshCookies == jwt.outstanding \cup {BadToken, None}

CanIssue == Cardinality(jwt.outstanding) < NumTokens

Login(u, ok) == CanIssue /\ AuthServe(LoginPost(jwt, u, ok))

Logout(authed, cookie) == AuthServe(LogoutPost(jwt, authed, cookie))

TokenRefresh(cookie) ==
  /\ cookie = None \/ TokenError(jwt, cookie) \/ CanIssue
  /\ AuthServe(TokenRefreshPost(jwt, cookie))

\* REFRESH_TOKEN_LIFETIME passes for token t.
Expire(t) ==
  /\ t \in jwt.outstanding \ jwt.expired
  /\ jwt' = [jwt EXCEPT !.expired = @ \cup {t}]
  /\ UNCHANGED <<cafe_count, cafes, reviews, favorites, pc, req, status,
                 list_cache, seen, started, users, reset_tokens>>

\* -- the count adjustment on its own, and locations going away
\* update_location_cafe_count(location_id, delta), as a signal handler calls
\* it: the status is 500 when the UPDATE raises.
AdjustCount(location_id, delta) ==
  /\ AllIdle
  /\ IF CountUpdateRejected(cafe_count, location_id, delta)
       THEN status' = 500 /\ UNCHANGED cafe_count
       ELSE /\ status' = 200
            /\ cafe_count' = update_location_cafe_count(cafe_count, location_id, delta)
  /\ \A l \in DOMAIN cafe_count' : cafe_count'[l] <= NumCafes
  /\ UNCHANGED <<cafes, reviews, favorites, pc, req, list_cache, seen, started, jwt,
                 users, reset_tokens>>

\* LocationViewSet.destroy: Cafe.location is on_delete=PROTECT, so only a
\* location no cafe references can go.
LocationDestroy(l) ==
  /\ AllIdle
  /\ l \in DOMAIN cafe_count
  /\ \A c \in DOMAIN cafes : cafes[c].location_id # l
  /\ cafe_count' = Drop(cafe_count, l)
  /\ UNCHANGED <<cafes, reviews, favorites, pc, req, status, list_cache, seen,
                 started, jwt, users, reset_tokens>>

\* -- the password reset endpoints, each request served whole
ResetServe(s) ==
  /\ AllIdle
  /\ users' = s.users
  /\ reset_tokens' = s.reset_tokens
  /\ status' = s.status
  /\ UNCHANGED <<cafe_count, cafes, reviews, favorites, pc, req, list_cache, seen,
                 started, jwt>>

PasswordResetRequest(email) ==
  /\ reset_tokens < NumResetTokens
  /\ ResetServe(PasswordResetRequestPost(users, reset_tokens, email))

\* The tokens a client can present: those generated, and one that was not.
ResetTokens == (1..reset_tokens) \cup {BadResetToken}

PasswordResetConfirm(token, new_password, pw_ok) ==
  ResetServe(PasswordResetConfirmPost(users, reset_tokens, token, new_password, pw_ok))

\* 24 hours pass since the reset token of user u was sent.
ResetExpire(u) ==
  /\ users[u].password_reset_sent_at = "fresh"
  /\ users' = [users EXCEPT ![u].password_reset_sent_at = "old"]
  /\ UNCHANGED <<cafe_count, cafes, reviews, favorites, pc, req, status, list_cache,
                 seen, started, jwt, reset_tokens>>

\* -- TokenRefreshView.post, every database statement a step
\* RefreshToken(refresh_token): the blacklist is read.  A request without a
\* cookie or with a refused token is answered 401 at once.
RefreshVerify(p, cookie) ==
  /\ pc[p] = "idle"
  /\ \A q \in Procs : q < p => pc[q] # "idle"
  /\ started < MaxRequests
  /\ started' = started + 1
  /\ IF cookie = None \/ TokenError(jwt, cookie)
       THEN /\ jwt' = TokenRefreshPost(jwt, cookie).jwt
            /\ status' = TokenRefreshPost(jwt, cookie).status
            /\ UNCHANGED <<pc, req>>
       ELSE /\ pc' = [pc EXCEPT ![p] =
                       IF ROTATE_REFRESH_TOKENS /\ BLACKLIST_AFTER_ROTATION
                         THEN "rt_blacklist" ELSE "rt_issue"]
            /\ req' = [req EXCEPT ![p] = [NoReq EXCEPT !.op = "token_refresh",
                                                      !.cookie = cookie]]
            /\ UNCHANGED <<jwt, status>>
  /\ UNCHANGED <<cafe_count, cafes, reviews, favorites, list_cache, seen, users,
                 reset_tokens>>

\* refresh.blacklist()
RefreshBlacklist(p) ==
  /\ pc[p] = "rt_blacklist"
  /\ jwt' = blacklist(jwt, req[p].cookie)
  /\ pc' = [pc EXCEPT ![p] = "rt_issue"]
  /\ UNCHANGED <<cafe_count, cafes, reviews, favorites, req, status, list_cache,
                 seen, started, users, reset_tokens>>

\* RefreshToken.for_user(user), set_jwt_cookies and the response
RefreshIssue(p) ==
  /\ pc[p] = "rt_issue"
  /\ CanIssue \/ ~ROTATE_REFRESH_TOKENS
  /\ jwt' = IF ROTATE_REFRESH_TOKENS
              THEN set_jwt_cookies(for_user(jwt, jwt.owner[req[p].cookie]), NewJti(jwt))
              ELSE set_jwt_cookies(jwt, req[p].cookie)
  /\ status' = 200
  /\ pc' = [pc EXCEPT ![p] = "idle"]
  /\ req' = [req EXCEPT ![p] = NoReq]
  /\ UNCHANGED <<cafe_count, cafes, reviews, favorites, list_cache, seen, started,
                 users, reset_tokens>>

\* -- the admin's bulk actions on reviews
\* The queryset an admin action receives: the changelist's queryset (the list
\* filter on is_active applied, if any) filtered by the selected ids.  It is
\* evaluated anew each time it is used.
AdminQueryset(rows, ids, flt) ==
  {r \in rows : r.id \in ids /\ (flt = "all" \/ (r.is_active <=> flt = "active"))}

\* "for review in queryset: review.cafe.update_rating_stats()"
RECURSIVE RecomputeEach(_, _)
RecomputeEach(db, rows) ==
  IF rows = {} THEN db
  ELSE LET r == CHOOSE x \in rows : TRUE
           s == Run(Frame(db, "stats_read",
                          [NoReq EXCEPT !.op = "admin_action", !.ok = 200,
                                        !.lazy_cafe = TRUE, !.review = r], 0))
       IN RecomputeEach(s.db, rows \ {r})

\* queryset.update(is_active=value), then the loop over the queryset.
BulkSetActive(db, ids, flt, value) ==
  LET hit == AdminQueryset(db.reviews, ids, flt)
      rows == (db.reviews \ hit) \cup {[r EXCEPT !.is_active = value] : r \in hit}
  IN RecomputeEach([db EXCEPT !.reviews = rows], AdminQueryset(rows, ids, flt))

\* The admin selects the rows S of a changelist shown under filter flt.
Selectable(S, flt) ==
  /\ S # {}
  /\ S = AdminQueryset(reviews, {r.id : r \in S}, flt)

activate_reviews(S, flt) ==
  /\ Selectable(S, flt)
  /\ Serve(Frame(BulkSetActive(DB, {r.id : r \in S}, flt, TRUE), "idle", NoReq, 200))
  /\ UNCHANGED status

deactivate_reviews(S, flt) ==
  /\ Selectable(S, flt)
  /\ Serve(Frame(BulkSetActive(DB, {r.id : r \in S}, flt, FALSE), "idle", NoReq, 200))
  /\ UNCHANGED status

\* The choices of the changelist's is_active filter.
ListFilters == {"all", "active", "inactive"}

\* -- reads
\* CafeViewSet.queryset: the active cafes.
ActiveCafes(cafeRows) == {c \in DOMAIN cafeRows : cafeRows[c].is_active}

\* The rating fields of CafeListSerializer.
ListEntry(row) ==
  [rating_avg |-> row.stats.rating_avg, rating_count |-> row.stats.rating_count]

ListBody(cafeRows) == [c \in ActiveCafes(cafeRows) |-> ListEntry(cafeRows[c])]

\* CafeViewSet.list under cache_page(60 * 5): the cached response if there is
\* one, else the queryset's, which is then cached.
CafeList ==
  /\ LET body == IF list_cache.valid THEN list_cache.body ELSE ListBody(cafes)
     IN /\ seen' = [kind |-> "list", body |-> body]
        /\ list_cache' = [valid |-> TRUE, body |-> body]
  /\ UNCHANGED <<cafe_count, cafes, reviews, favorites, pc, req, status, started, jwt,
               users, reset_tokens>>

\* The cached response times out.
CacheExpire ==
  /\ list_cache.valid
  /\ list_cache' = NoCache
  /\ UNCHANGED <<cafe_count, cafes, reviews, favorites, pc, req, status, seen, started, jwt,
               users, reset_tokens>>

\* CafeViewSet.retrieve: the rating fields of CafeDetailSerializer.
CafeRetrieve(c) ==
  /\ c \in ActiveCafes(cafes)
  /\ seen' = [kind |-> "detail", body |-> [x \in {c} |-> cafes[c].stats]]
  /\ UNCHANGED <<cafe_count, cafes, reviews, favorites, pc, req, status, list_cache, started, jwt,
               users, reset_tokens>>

\* --------------------------------------------------------------- start
\* Locations with cafe_count = 0 and no cafes.
Init ==
  /\ cafe_count = [l \in Locations |-> 0]
  /\ cafes = << >>
  /\ reviews = {}
  /\ favorites = {}
  /\ pc = [p \in Procs |-> "idle"]
  /\ req = [p \in Procs |-> NoReq]
  /\ status = 0
  /\ list_cache = NoCache
  /\ seen = NoSeen
  /\ started = 0
  /\ jwt = NoJwt
  /\ users = UsersAtStart(Users)
  /\ reset_tokens = 0

LocationAtStart(c) == ((c - 1) % NumLocations) + 1

\* Every cafe exists, cafe c at location c (modulo the locations); the first
\* NumOpenCafes are active, and counted by their locations.
InitReviews ==
  /\ cafes = [c \in Cafes |-> CafeRow(LocationAtStart(c), c <= NumOpenCafes, ZeroStats)]
  /\ cafe_count = [l \in Locations |->
        Cardinality({c \in Cafes : c <= NumOpenCafes /\ LocationAtStart(c) = l})]
  /\ reviews = {}
  /\ favorites = {}
  /\ pc = [p \in Procs |-> "idle"]
  /\ req = [p \in Procs |-> NoReq]
  /\ status = 0
  /\ list_cache = NoCache
  /\ seen = NoSeen
  /\ started = 0
  /\ jwt = NoJwt
  /\ users = UsersAtStart(Users)
  /\ reset_tokens = 0

\* The locations a write may name for cafe c: where it started, and the next.
NearLocations(c) == {LocationAtStart(c), LocationAtStart(c + 1)}

ActiveCafesAt(l) == {c \in DOMAIN cafes : cafes[c].is_active /\ cafes[c].location_id = l}

\* ------------------------------------------------------ specifications

\* Cafe writes, each served whole.
CafeSeqNext ==
  \/ \E c \in Cafes, l \in Locations, a \in BOOLEAN : CafeCreate(c, l, a)
  \/ \E c \in Cafes, l \in Locations, a \in BOOLEAN : CafeUpdate(c, l, a)
  \/ \E c \in Cafes : CafeDelete(c)

CafeSeqSpec == Init /\ [][CafeSeqNext]_vars

\* Concurrent cafe writes, the requests in flight being on different cafes.
CafeDistinctNext ==
  \/ \E p \in Procs, c \in Cafes, l \in Locations, a \in BOOLEAN :
        InFlightOn(c) = {} /\ CafeCreateStart(p, c, l, a)
  \/ \E p \in Procs, c \in Cafes, l \in Locations, a \in BOOLEAN :
        InFlightOn(c) = {} /\ CafeUpdateStart(p, c, l, a)
  \/ \E p \in Procs, c \in Cafes : InFlightOn(c) = {} /\ CafeDeleteStart(p, c)
  \/ \E p \in Procs : CafePreSave(p)
  \/ \E p \in Procs : CafeWrite(p)
  \/ \E p \in Procs : CafeCountUpdate(p)
  \/ \E p \in Procs : CafeDeleteRow(p)

CafeDistinctSpec == Init /\ [][CafeDistinctNext]_vars

\* Review writes through the API, each served whole.
ReviewSeqNext ==
  \/ \E u \in Users, c \in Cafes, in \in ReviewInputs : ReviewCreate(u, c, in)
  \/ \E u \in Users, r \in reviews, in \in ReviewInputs : ReviewUpdate(u, r, in)
  \/ \E u \in Users, r \in reviews : ReviewDestroy(u, r)

ReviewSeqSpec == InitReviews /\ [][ReviewSeqNext]_vars

\* Review creates and soft-deletes, each served whole, the status of each
\* response kept.
ReviewAnsweredNext ==
  \/ \E u \in Users, c \in Cafes, in \in ReviewInputs : ReviewCreateAnswered(u, c, in)
  \/ \E u \in Users, r \in reviews : ReviewDestroyAnswered(u, r)

ReviewAnsweredSpec == InitReviews /\ [][ReviewAnsweredNext]_vars

\* Concurrent review writes through the API.
ReviewConcNext ==
  \/ \E p \in Procs, u \in Users, c \in Cafes, in \in ReviewInputs :
        ReviewCreateStart(p, u, c, in)
  \/ \E p \in Procs, u \in Users, r \in reviews, in \in ReviewInputs :
        ReviewUpdateStart(p, u, r, in)
  \/ \E p \in Procs, u \in Users, r \in reviews : ReviewDestroyStart(p, u, r)
  \/ \E p \in Procs : ReviewWrite(p)
  \/ \E p \in Procs : StatsRead(p)
  \/ \E p \in Procs : CafePreSave(p)
  \/ \E p \in Procs : CafeWrite(p)

ReviewConcSpec == InitReviews /\ [][ReviewConcNext]_vars

\* Review writes one at a time, step by step, where the aggregate update may fail.
ReviewFailNext ==
  \/ \E p \in Procs, u \in Users, c \in Cafes, in \in ReviewInputs :
        AllIdle /\ ReviewCreateStart(p, u, c, in)
  \/ \E p \in Procs, u \in Users, r \in reviews, in \in ReviewInputs :
        AllIdle /\ ReviewUpdateStart(p, u, r, in)
  \/ \E p \in Procs, u \in Users, r \in reviews : AllIdle /\ ReviewDestroyStart(p, u, r)
  \/ \E p \in Procs : ReviewWrite(p)
  \/ \E p \in Procs : StatsRead(p)
  \/ \E p \in Procs : CafePreSave(p)
  \/ \E p \in Procs : CafeWrite(p)
  \/ \E p \in Procs : AggregateFails(p)

ReviewFailSpec == InitReviews /\ [][ReviewFailNext]_vars

\* Review writes, each served whole, and reads of the cafes' rating summaries.
ReviewReadNext ==
  \/ \E u \in Users, c \in Cafes, in \in ReviewInputs : ReviewCreate(u, c, in)
  \/ \E u \in Users, r \in reviews, in \in ReviewInputs : ReviewUpdate(u, r, in)
  \/ \E u \in Users, r \in reviews : ReviewDestroy(u, r)
  \/ CafeList
  \/ CacheExpire
  \/ \E c \in Cafes : CafeRetrieve(c)

ReviewReadSpec == InitReviews /\ [][ReviewReadNext]_vars

\* Review writes racing with the deletion of their cafe.
ReviewDeleteRaceNext ==
  \/ \E p \in Procs, u \in Users, c \in Cafes, in \in ReviewInputs :
        ReviewCreateStart(p, u, c, in)
  \/ \E p \in Procs, u \in Users, r \in reviews, in \in ReviewInputs :
        ReviewUpdateStart(p, u, r, in)
  \/ \E p \in Procs, u \in Users, r \in reviews : ReviewDestroyStart(p, u, r)
  \/ \E p \in Procs, c \in Cafes : CafeDeleteStart(p, c)
  \/ \E p \in Procs : ReviewWrite(p)
  \/ \E p \in Procs : StatsRead(p)
  \/ \E p \in Procs : CafePreSave(p)
  \/ \E p \in Procs : CafeWriteAnswered(p)
  \/ \E p \in Procs : CafeDeleteRow(p)

ReviewDeleteRaceSpec == InitReviews /\ [][ReviewDeleteRaceNext]_vars

\* Review writes through the API and the admin's bulk actions, each served whole.
ReviewAdminNext ==
  \/ \E u \in Users, c \in Cafes, in \in ReviewInputs : ReviewCreate(u, c, in)
  \/ \E u \in Users, r \in reviews : ReviewDestroy(u, r)
  \/ \E S \in SUBSET reviews, flt \in ListFilters : activate_reviews(S, flt)
  \/ \E S \in SUBSET reviews, flt \in ListFilters : deactivate_reviews(S, flt)

ReviewAdminSpec == InitReviews /\ [][ReviewAdminNext]_vars

\* Reviews and favorites added, favorites removed and cafes deleted, each
\* request served whole.
CascadeNext ==
  \/ \E u \in Users, c \in Cafes,
         in \in {x \in ReviewInputs : x.ratings.rating_overall = MaxRating} :
        ReviewCreate(u, c, in)
  \/ \E u \in Users, c \in Cafes : FavoriteCreate(u, c)
  \/ \E u \in Users, c \in Cafes : FavoriteDestroy(u, c)
  \/ \E c \in Cafes : CafeDelete(c)

CascadeSpec == InitReviews /\ [][CascadeNext]_vars

\* Concurrent favorite adds and removes and cafe deletes, every database
\* statement a step.
FavoriteConcNext ==
  \/ \E p \in Procs, u \in Users, c \in Cafes : FavoriteCreateStart(p, u, c)
  \/ \E p \in Procs, u \in Users, c \in Cafes : FavoriteDestroyStart(p, u, c)
  \/ \E p \in Procs, c \in Cafes : CafeDeleteStart(p, c)
  \/ \E p \in Procs : FavGet(p)
  \/ \E p \in Procs : FavInsert(p)
  \/ \E p \in Procs : FavReget(p)
  \/ \E p \in Procs : FavDelete(p)
  \/ \E p \in Procs : CafeDeleteRowAnswered(p)

FavoriteConcSpec == InitReviews /\ [][FavoriteConcNext]_vars

\* Logins of two users, logouts and token refreshes, each served whole, and
\* time passing.
AuthNext ==
  \/ \E u \in {1, NumUsers}, ok \in BOOLEAN : Login(u, ok)
  \/ \E authed \in BOOLEAN, cookie \in RefreshCookies : Logout(authed, cookie)
  \/ \E cookie \in RefreshCookies : TokenRefresh(cookie)
  \/ \E t \in Jtis : Expire(t)

AuthSpec == Init /\ [][AuthNext]_vars

\* A user has logged in: one refresh token is outstanding.
InitLoggedIn ==
  /\ cafe_count = [l \in Locations |-> 0]
  /\ cafes = << >>
  /\ reviews = {}
  /\ favorites = {}
  /\ pc = [p \in Procs |-> "idle"]
  /\ req = [p \in Procs |-> NoReq]
  /\ status = 200
  /\ list_cache = NoCache
  /\ seen = NoSeen
  /\ started = 0
  /\ \E u \in Users : jwt = LoginPost(NoJwt, u, TRUE).jwt
  /\ users = UsersAtStart(Users)
  /\ reset_tokens = 0

\* Concurrent token refreshes, and time passing.
RefreshConcNext ==
  \/ \E p \in Procs, cookie \in RefreshCookies : RefreshVerify(p, cookie)
  \/ \E p \in Procs : RefreshBlacklist(p)
  \/ \E p \in Procs : RefreshIssue(p)
  \/ \E t \in Jtis : Expire(t)

RefreshConcSpec == InitLoggedIn /\ [][RefreshConcNext]_vars

\* Some of the users are active, none has asked for a reset.
InitAccounts ==
  /\ cafe_count = [l \in Locations |-> 0]
  /\ cafes = << >>
  /\ reviews = {}
  /\ favorites = {}
  /\ pc = [p \in Procs |-> "idle"]
  /\ req = [p \in Procs |-> NoReq]
  /\ status = 0
  /\ list_cache = NoCache
  /\ seen = NoSeen
  /\ started = 0
  /\ jwt = NoJwt
  /\ \E A \in SUBSET Users : users = UsersAtStart(A)
  /\ reset_tokens = 0

\* Password resets requested and confirmed, each served whole, and time passing.
ResetNext ==
  \/ \E email \in Emails : PasswordResetRequest(email)
  \/ \E token \in ResetTokens, pw \in Passwords, pw_ok \in BOOLEAN :
        PasswordResetConfirm(token, pw, pw_ok)
  \/ \E u \in Users : ResetExpire(u)

ResetSpec == InitAccounts /\ [][ResetNext]_vars

\* Count adjustments for any location id, null included, while locations are
\* deleted.
CountNext ==
  \/ \E l \in Locations \cup {None}, delta \in {0 - 1, 1} : AdjustCount(l, delta)
  \/ \E l \in Locations : LocationDestroy(l)

CountSpec == Init /\ [][CountNext]_vars

\* Every cafe exists, cafe c at location c (modulo the locations), active or
\* not, and every location counts its active cafes.
InitCafes ==
  /\ \E A \in SUBSET Cafes :
        /\ cafes = [c \in Cafes |-> CafeRow(LocationAtStart(c), c \in A, ZeroStats)]
        /\ cafe_count = [l \in Locations |->
              Cardinality({c \in A : LocationAtStart(c) = l})]
  /\ reviews = {}
  /\ favorites = {}
  /\ pc = [p \in Procs |-> "idle"]
  /\ req = [p \in Procs |-> NoReq]
  /\ status = 0
  /\ list_cache = NoCache
  /\ seen = NoSeen
  /\ started = 0
  /\ jwt = NoJwt
  /\ users = UsersAtStart(Users)
  /\ reset_tokens = 0

\* The requests in flight are all on cafe c.
OnlyOn(c) == \A q \in Procs : pc[q] # "idle" => req[q].inst.id = c

\* Cafe writes in flight together on the same cafe, every save and delete
\* taken step by step.
SameCafeNext ==
  \/ \E p \in Procs, c \in Cafes, a \in BOOLEAN : \E l \in NearLocations(c) :
        OnlyOn(c) /\ CafeCreateStart(p, c, l, a)
  \/ \E p \in Procs, c \in Cafes, a \in BOOLEAN : \E l \in NearLocations(c) :
        OnlyOn(c) /\ CafeUpdateStart(p, c, l, a)
  \/ \E p \in Procs, c \in Cafes : OnlyOn(c) /\ CafeDeleteStart(p, c)
  \/ \E p \in Procs : CafePreSave(p)
  \/ \E p \in Procs : CafeWrite(p)
  \/ \E p \in Procs : CafeCountUpdate(p)
  \/ \E p \in Procs : CafeDeleteRow(p)

SameCafeSpec == InitCafes /\ [][SameCafeNext]_vars

\* The state after user u's valid review of the active cafe c was created.
InitReviewed ==
  \E u \in Users, c \in 1..NumOpenCafes :
    \E in \in {x \in ReviewInputs :
                 x.ratings.rating_overall = MaxRating /\ x.text = GoodText} :
      LET made == {ReviewRow(NewReviewId({}, u, c), u, c, TRUE, in.ratings,
                             Strip(in.text))}
      IN /\ reviews = made
         /\ cafes = [d \in Cafes |->
               CafeRow(LocationAtStart(d), d <= NumOpenCafes,
                       IF d = c THEN rating_stats(made, c) ELSE ZeroStats)]
         /\ cafe_count = [l \in Locations |->
               Cardinality({d \in Cafes : d <= NumOpenCafes /\ LocationAtStart(d) = l})]
         /\ favorites = {}
         /\ pc = [p \in Procs |-> "idle"]
         /\ req = [p \in Procs |-> NoReq]
         /\ status = 0
         /\ list_cache = NoCache
         /\ seen = NoSeen
         /\ started = 0
         /\ jwt = NoJwt
         /\ users = UsersAtStart(Users)
         /\ reset_tokens = 0

\* Updates, soft-deletes and creates of reviews in flight together, by the
\* review's author or by others, where a review exists from the start.
EditRaceNext ==
  \/ \E p \in Procs, u \in Users, c \in Cafes, in \in ReviewInputs :
        ReviewCreateStart(p, u, c, in)
  \/ \E p \in Procs, u \in Users, r \in reviews, in \in ReviewInputs :
        ReviewUpdateStart(p, u, r, in)
  \/ \E p \in Procs, u \in Users, r \in reviews : ReviewDestroyStart(p, u, r)
  \/ \E p \in Procs : ReviewWrite(p)
  \/ \E p \in Procs : StatsRead(p)
  \/ \E p \in Procs : CafePreSave(p)
  \/ \E p \in Procs : CafeWrite(p)

EditRaceSpec == InitReviewed /\ [][EditRaceNext]_vars

\* Review creates, whose update_rating_stats runs on the cafe object the view
\* loaded, beside cafe updates, every save of either taken step by step.
StaleNext ==
  \/ \E p \in Procs, u \in {1, NumUsers}, c \in Cafes :
        \E in \in {x \in ReviewInputs :
                     x.ratings.rating_overall = MaxRating /\ x.text = GoodText} :
          ReviewCreateStart(p, u, c, in)
  \/ \E p \in Procs, c \in Cafes, a \in BOOLEAN : \E l \in NearLocations(c) :
        CafeUpdateStart(p, c, l, a)
  \/ \E p \in Procs : ReviewWrite(p)
  \/ \E p \in Procs : StatsRead(p)
  \/ \E p \in Procs : CafePreSave(p)
  \/ \E p \in Procs : CafeWrite(p)
  \/ \E p \in Procs : CafeCountUpdate(p)

StaleSpec == InitReviews /\ [][StaleNext]_vars

\* ------------------------------------------------------------- claims

\* C1: once every cafe operation has completed, each location's cafe_count is
\* the number of active cafes that reference the location.
C1_CountMatchesActiveCafes ==
  AllIdle => \A l \in Locations : cafe_count[l] = Cardinality(ActiveCafesAt(l))

\* C1 witness: every cafe is active at one location, which counts them all,
\* after an update was served.
C1_Witness ==
  /\ status = 200
  /\ \E l \in Locations : cafe_count[l] = NumCafes /\ ActiveCafesAt(l) = Cafes

\* C2: after any sequence of completed review operations through the API, each
\* cafe's rating_count is the number of its reviews with is_active = true.
C2_CountMatchesActiveReviews ==
  \A c \in DOMAIN cafes :
    cafes[c].stats.rating_count = Cardinality({r \in reviews : r.cafe = c /\ r.is_active})

\* C2 witness: a cafe with two active reviews and a soft-deleted one counts two.
C2_Witness ==
  \E c \in DOMAIN cafes :
    /\ cafes[c].stats.rating_count = 2
    /\ \E r \in reviews : r.cafe = c /\ ~r.is_active

RatingFields ==
  { <<"rating_avg", "rating_overall">>, <<"rating_wifi", "rating_wifi">>,
    <<"rating_power", "rating_power">>, <<"rating_noise", "rating_noise">>,
    <<"rating_coffee", "rating_coffee">> }

\* The active reviews of cafe c in which field f is set.
Rated(c, f) == {r \in reviews : r.cafe = c /\ r.is_active /\ r[f] # None}

Abs(x) == IF x < 0 THEN 0 - x ELSE x

\* C3 as stated: after update_rating_stats returns, each average (stored in
\* hundredths) is exactly the arithmetic mean of its field over the active
\* reviews that set it, and 0 when none does.
C3_ExactMean ==
  \A c \in DOMAIN cafes : \A ff \in RatingFields :
    LET R == Rated(c, ff[2])
        h == cafes[c].stats[ff[1]]
    IN IF R = {} THEN h = 0
       ELSE h * Cardinality(R) = 100 * SumField(R, ff[2])

\* C3 amended: after update_rating_stats returns, each average is the mean of
\* its field over the active reviews that set it, rounded to two decimal
\* places (a nearest hundredth), and 0 when none sets it; a review that omits
\* the dimension is ignored for it.
C3_MeanToTwoPlaces ==
  \A c \in DOMAIN cafes : \A ff \in RatingFields :
    LET R == Rated(c, ff[2])
        h == cafes[c].stats[ff[1]]
    IN IF R = {} THEN h = 0
       ELSE 2 * Abs(h * Cardinality(R) - 100 * SumField(R, ff[2])) <= Cardinality(R)

\* C3 witness: three active reviews rate a cafe 5, 5 and 4 overall (4.67), and
\* one of them omits a dimension another sets.
C3_Witness ==
  \E c \in DOMAIN cafes :
    /\ cafes[c].stats.rating_avg = 467
    /\ \E a, b \in Rated(c, "rating_overall") :
          a.rating_power # None /\ b.rating_power = None
    /\ cafes[c].stats.rating_power = 400

\* C4: in every reachable state, concurrent creates included, there is at most
\* one Review row (active or inactive) per (user, cafe) pair.
C4_OneReviewPerUserAndCafe ==
  \A a, b \in reviews : (a.user = b.user /\ a.cafe = b.cafe) => a = b

\* C4 witness: a create that passed validation is about to INSERT a row for a
\* (user, cafe) pair another create has inserted a row for meanwhile.
C4_Witness ==
  \E p \in Procs, r \in reviews :
    /\ pc[p] = "review_write"
    /\ req[p].op = "review_create"
    /\ req[p].review.user = r.user
    /\ req[p].review.cafe = r.cafe

\* C5: when the writes in flight are on different cafes, no cafe_count
\* adjustment is lost: once all have completed, each location's cafe_count is
\* its number of active cafes.
C5_NoLostAdjustment ==
  (\A p \in Procs : pc[p] = "idle") =>
    \A l \in Locations :
      cafe_count[l] = Cardinality({c \in DOMAIN cafes :
                                     cafes[c].location_id = l /\ cafes[c].is_active})

\* C5 witness: two writes on different cafes are both about to adjust the
\* cafe_count of the same location.
C5_Witness ==
  \E p, q \in Procs :
    /\ p # q
    /\ pc[p] = "post_save" /\ pc[q] = "post_save"
    /\ req[p].inst.id # req[q].inst.id
    /\ Head(req[p].todo)[1] = Head(req[q].todo)[1]

FreshStats(c) == cafes[c].stats = rating_stats(reviews, c)

\* C6 as stated: once the concurrent review writes on a cafe have all
\* completed, its rating_count and averages are those of its active reviews.
C6_FinalStatsFresh == AllIdle => \A c \in DOMAIN cafes : FreshStats(c)

\* The save of worker p moves a cafe that was and stays active to another location.
IsActiveMove(p) ==
  /\ req[p].op = "cafe_update"
  /\ req[p].old.found /\ req[p].old.is_active /\ req[p].inst.is_active
  /\ req[p].old.location_id # req[p].inst.location_id

\* C7 as stated: a move of an active cafe adjusts both counts atomically: no
\* committed state has the old location decremented and the new one not yet
\* incremented.
C7_MoveIsAtomic ==
  \A p \in Procs :
    ~(pc[p] = "post_save" /\ IsActiveMove(p)
        /\ req[p].todo = << <<req[p].inst.location_id, 1>> >>)

\* C8 as stated: a review write is never committed while the aggregates of its
\* cafe were not updated for it: when no request is in flight, every review's
\* cafe carries the aggregates of its active reviews.
C8_WriteAndAggregateTogether ==
  AllIdle => \A r \in reviews : cafes[r.cafe].stats = rating_stats(reviews, r.cafe)

\* C9 as stated: a read of a cafe's rating summary (list or detail) made after
\* the review writes have returned shows the average and count of the cafe's
\* active reviews.
C9_ReadReflectsWrites ==
  seen.kind # "none" =>
    \A c \in DOMAIN seen.body :
      /\ seen.body[c].rating_count = rating_stats(reviews, c).rating_count
      /\ seen.body[c].rating_avg = rating_stats(reviews, c).rating_avg

\* The reasons of C10: a row for (user, cafe) exists, rating_overall is
\* outside 1..5, or the text has fewer than 10 characters.
Rejectable(u, c, in) ==
  \/ \E r \in reviews : r.user = u /\ r.cafe = c
  \/ in.ratings.rating_overall < MinRating
  \/ in.ratings.rating_overall > MaxRating
  \/ TextLen(in.text) < MinTextLen

\* C10: a review create that is rejected as a duplicate, for a rating_overall
\* outside 1..5 or for a text shorter than 10 characters adds no Review row
\* and leaves every cafe's rating fields and rating_count unchanged: in every
\* reachable state, serving such a create answers 400 (404 for an inactive
\* cafe) and leaves the database as it was.
C10_RejectedCreateChangesNothing ==
  \A u \in Users, c \in Cafes, in \in ReviewInputs :
    Rejectable(u, c, in) =>
      LET f == Run(ReviewCreateBegin(DB, u, c, in.ratings, in.text))
      IN /\ f.status \in {400, 404}
         /\ f.db.reviews = reviews
         /\ f.db.cafes = cafes

\* C10 witness: a create was answered 400 for a cafe that has a review.
C10_Witness ==
  /\ status = 400
  /\ \E c \in DOMAIN cafes : cafes[c].stats.rating_count > 0

\* C11 as stated: update_rating_stats for a cafe whose row was deleted
\* meanwhile raises no error: no request is answered 500 by the save of the
\* recomputed rating fields.
C11_RecomputeWithoutCafeIsNoOp == status # 500

\* C12 as stated: after an admin bulk activate or deactivate of any selected
\* reviews, whatever list filter selected them, every cafe's rating_count and
\* averages are those computed from its active reviews.
C12_BulkFlipRecomputes ==
  \A c \in DOMAIN cafes :
    /\ cafes[c].stats.rating_count = Cardinality(ActiveReviews(reviews, c))
    /\ cafes[c].stats = rating_stats(reviews, c)

\* C13 as stated: an update request from a user other than the review's
\* author, whatever the user's role, leaves the reviews and the cafes'
\* aggregates unchanged.
C13_OnlyAuthorMutates ==
  [][\A u \in Users, r \in reviews, in \in ReviewInputs :
       (u # r.user /\ ReviewUpdate(u, r, in)) => UNCHANGED <<reviews, cafes>>]_vars

\* A soft-deleted review is in neither review list and not in its cafe's aggregates.
HiddenAndExcluded(r) ==
  /\ r \notin get_queryset(DB, r.cafe)
  /\ r \notin user_reviews(DB, r.user)
  /\ cafes[r.cafe].stats = rating_stats(reviews \ {r}, r.cafe)

\* C14: a delete through the API by the author or an admin keeps the row and
\* sets is_active to false; no API request removes a row or returns an
\* inactive one to active; an inactive review is in neither the cafe's review
\* list nor its author's, and is excluded from aggregation.
C14_SoftDelete ==
  /\ [](\A r \in reviews : ~r.is_active => HiddenAndExcluded(r))
  /\ [](\A u \in Users, r \in reviews :
          (r.is_active /\ (u = r.user \/ u \in Admins)) =>
             \E x \in Run(ReviewDestroyBegin(DB, u, r.cafe, r.id)).db.reviews :
                x.id = r.id /\ ~x.is_active)
  /\ [][\A r \in reviews :
          \E x \in reviews' : x.id = r.id /\ (~r.is_active => ~x.is_active)]_vars

\* C14 witness: a cafe has a soft-deleted review and one active review, which
\* alone is counted.
C14_Witness ==
  \E r \in reviews :
    /\ ~r.is_active
    /\ cafes[r.cafe].stats.rating_count = 1

\* C15: saving an inactive cafe with another location, still inactive, leaves
\* the cafe_count of every location unchanged, whatever other cafes exist.
C15_InactiveMoveKeepsCounts ==
  [][\A c \in DOMAIN cafes, l \in Locations :
       (~cafes[c].is_active /\ l # cafes[c].location_id /\ CafeUpdate(c, l, FALSE))
          => cafe_count' = cafe_count]_vars

\* C15 witness: after an update, an inactive cafe shares its location with an
\* active one, which alone is counted.
C15_Witness ==
  /\ status = 200
  /\ \E c, d \in DOMAIN cafes :
        /\ ~cafes[c].is_active /\ cafes[d].is_active
        /\ cafes[c].location_id = cafes[d].location_id
        /\ cafe_count[cafes[c].location_id] = 1

\* C16: a soft delete, by its author or an admin, of the only active review of
\* a cafe leaves that cafe's five averages and its rating_count at exactly 0.
C16_LastReviewGoneZeroes ==
  \A u \in Users, r \in reviews :
    (ActiveReviews(reviews, r.cafe) = {r} /\ has_object_permission(u, r))
      => LET s == Run(ReviewDestroyBegin(DB, u, r.cafe, r.id))
         IN s.status = 204 /\ s.db.cafes[r.cafe].stats = ZeroStats

\* C16 witness: a cafe whose only review is soft-deleted has every aggregate 0.
C16_Witness ==
  \E r \in reviews :
    /\ ~r.is_active
    /\ ActiveReviews(reviews, r.cafe) = {}
    /\ \A f \in DOMAIN ZeroStats : cafes[r.cafe].stats[f] = 0

\* The cafe_count of location l after each step of: create cafe c active at
\* l, deactivate it, reactivate it, delete it, starting from database db.
ScenarioCounts(db, c, l) ==
  LET s1 == Run(CafeCreateBegin(db, c, l, TRUE))
      s2 == Run(CafeUpdateBegin(s1.db, c, l, FALSE))
      s3 == Run(CafeUpdateBegin(s2.db, c, l, TRUE))
      s4 == Run(CafeDeleteBegin(s3.db, c))
  IN <<s1.db.cafe_count[l], s2.db.cafe_count[l],
       s3.db.cafe_count[l], s4.db.cafe_count[l]>>

\* C17: for a location whose cafe_count is 0, creating an active cafe there,
\* deactivating it, reactivating it and deleting it gives cafe_count 1, 0, 1, 0.
C17_LifecycleCounts ==
  \A l \in Locations, c \in Cafes \ DOMAIN cafes :
    cafe_count[l] = 0 => ScenarioCounts(DB, c, l) = <<1, 0, 1, 0>>

\* C17 witness: the scenario starts at a location that counts 0 and holds an
\* inactive cafe, and its first step takes the count to 1.
C17_Witness ==
  \E l \in Locations, c \in Cafes \ DOMAIN cafes :
    /\ cafe_count[l] = 0
    /\ \E d \in DOMAIN cafes : cafes[d].location_id = l
    /\ ScenarioCounts(DB, c, l)[1] = 1

\* C18: when a cafe delete has completed, no review and no favorite references
\* the deleted cafe.
C18_DeleteCascades ==
  \A c \in DOMAIN cafes :
    LET s == Run(CafeDeleteBegin(DB, c))
    IN s.status = 204
         => /\ c \notin DOMAIN s.db.cafes
            /\ \A r \in s.db.reviews : r.cafe # c
            /\ \A f \in s.db.favorites : f.cafe # c

\* C18 witness: a cafe with a review and a favorite, whose delete is answered
\* 204 and removes it.
C18_Witness ==
  \E c \in DOMAIN cafes :
    /\ \E r \in reviews : r.cafe = c
    /\ \E f \in favorites : f.cafe = c
    /\ LET s == Run(CafeDeleteBegin(DB, c))
       IN s.status = 204 /\ c \notin DOMAIN s.db.cafes

OnePerPair ==
  \A f, g \in favorites : (f.user = g.user /\ f.cafe = g.cafe) => f = g

\* C19: there is never more than one favorite per (user, cafe); a step of an
\* add request whose pair is already favorited creates no row, and the request
\* it ends is answered 400, also when the adds of one pair run concurrently.
C19_OneFavoritePerUserAndCafe ==
  /\ []OnePerPair
  /\ [][\A p \in Procs :
         (/\ req[p].op = "favorite_create"
          /\ Favorited(favorites, req[p].favorite)
          /\ (FavGet(p) \/ FavInsert(p) \/ FavReget(p)))
            => (favorites' = favorites /\ (pc'[p] = "idle" => status' = 400))]_vars

\* C19 witness: of two concurrent adds of one pair, one has its row and the
\* INSERT of the other was refused.
C19_Witness ==
  \E p \in Procs :
    /\ pc[p] = "fav_reget"
    /\ Favorited(favorites, req[p].favorite)
    /\ started = 2

\* A refresh with a refused token is answered 401, issues no token and sets no
\* cookie; and a refused token stays refused.
RefusedForGood ==
  /\ [][\A t \in jwt.outstanding \cup {BadToken} :
         TokenError(jwt, t) => TokenError(jwt', t)]_vars
  /\ [][\A t \in jwt.outstanding \cup {BadToken} :
         (TokenError(jwt, t) /\ TokenRefresh(t))
            => /\ status' = 401
               /\ jwt'.outstanding = jwt.outstanding
               /\ jwt'.cookies # "set"]_vars

\* C20 as stated: once a logout request that carried a refresh token has
\* completed, whatever its answer, that token is refused, for good: every
\* later refresh that presents it is answered 401 and issues no token.
C20_AnyLogoutRevokes ==
  /\ [][\A authed \in BOOLEAN, cookie \in RefreshCookies \ {None} :
         Logout(authed, cookie) => TokenError(jwt', cookie)]_vars
  /\ RefusedForGood

\* C20: once a logout request that carried a refresh token has been answered
\* 200, that token is refused, for good: every later refresh that presents it
\* is answered 401 and issues no token.
C20_LogoutRevokes ==
  /\ [][\A authed \in BOOLEAN, cookie \in RefreshCookies \ {None} :
         (Logout(authed, cookie) /\ status' = 200) => TokenError(jwt', cookie)]_vars
  /\ RefusedForGood

\* C20 witness: the only token issued is blacklisted, by a logout since no
\* refresh rotated it, and a refresh that presents it is answered 401.
C20_Witness ==
  \E t \in jwt.blacklisted :
    /\ jwt.outstanding = {t}
    /\ t \notin jwt.expired
    /\ status = 401
    /\ jwt.cookies = "deleted"
    /\ TokenRefreshPost(jwt, t).status = 401

\* C21 as stated: a refresh token serves at most one successful refresh.  One
\* token came from the login and every other from a successful refresh, so
\* the tokens issued by refreshes are never more than the tokens blacklisted.
C21_OneRefreshPerToken ==
  Cardinality(jwt.outstanding) - 1 <= Cardinality(jwt.blacklisted)

\* Some user's stored reset token is the hash of token.
Stored(rows, token) ==
  \E u \in DOMAIN rows : rows[u].password_reset_token = hash_token(token)

\* C22: a reset confirm answered 200 sets the password of the user the token
\* was stored for and clears the stored token; a token that is not stored is
\* never stored again; and a confirm with a token that is not stored is
\* answered 400 and changes no user.
C22_ResetTokenSingleUse ==
  /\ [][\A token \in ResetTokens, pw \in Passwords, pw_ok \in BOOLEAN :
         (PasswordResetConfirm(token, pw, pw_ok) /\ status' = 200)
            => /\ \E u \in Users :
                    /\ users[u].password_reset_token = hash_token(token)
                    /\ users'[u].password = pw
                    /\ users'[u].password_reset_token = Blank
               /\ ~Stored(users', token)]_vars
  /\ [][\A token \in ResetTokens : ~Stored(users, token) => ~Stored(users', token)]_vars
  /\ [][\A token \in ResetTokens, pw \in Passwords, pw_ok \in BOOLEAN :
         (~Stored(users, token) /\ PasswordResetConfirm(token, pw, pw_ok))
            => (status' = 400 /\ users' = users)]_vars

\* C22 witness: the one token generated has reset a password, and a confirm
\* that presents it again has been, and is, answered 400.
C22_Witness ==
  /\ reset_tokens = 1
  /\ status = 400
  /\ \E u \in Users : users[u].password # 1 /\ users[u].password_reset_token = Blank
  /\ \A pw \in Passwords :
        PasswordResetConfirmPost(users, reset_tokens, 1, pw, TRUE).status = 400

\* What the client sees of a password-reset request.
Response(s) == [status |-> s.status, message |-> s.message]

\* C23: in every reachable state a password-reset request is answered 200, and
\* with the same status and message for any two addresses, whether an active
\* account, an inactive account or no account has the address.
C23_ResetRequestTellsNothing ==
  \A e1, e2 \in Emails :
    LET r1 == PasswordResetRequestPost(users, reset_tokens, e1)
        r2 == PasswordResetRequestPost(users, reset_tokens, e2)
    IN r1.status = 200 /\ Response(r1) = Response(r2)

\* C23 witness: requests have been answered for an address with an active
\* account (its token is stored) while another user is inactive.
C23_Witness ==
  /\ status = 200
  /\ reset_tokens = NumResetTokens
  /\ \E u, v \in Users :
        /\ users[u].is_active /\ users[u].password_reset_token # Blank
        /\ ~users[v].is_active
        /\ PasswordResetRequestPost(users, reset_tokens, u).users # users
        /\ PasswordResetRequestPost(users, reset_tokens, v).users = users

\* Cafe c saved with the location and the is_active of its row.
SameSave(c) == Run(CafeUpdateBegin(DB, c, cafes[c].location_id, cafes[c].is_active))

\* C24: saving an existing cafe with its location and its is_active as they
\* are stored is answered 200 and leaves every location's cafe_count unchanged.
C24_UnchangedSaveKeepsCounts ==
  \A c \in DOMAIN cafes :
    SameSave(c).status = 200 /\ SameSave(c).db.cafe_count = cafe_count

\* C24 witness: after an update, an active cafe and an inactive one exist, and
\* saving either as it is keeps the counts.
C24_Witness ==
  /\ status = 200
  /\ \E c, d \in DOMAIN cafes :
        /\ cafes[c].is_active /\ ~cafes[d].is_active
        /\ cafe_count[cafes[c].location_id] = 1
        /\ SameSave(c).db.cafe_count = cafe_count
        /\ SameSave(d).db.cafe_count = cafe_count

\* C25: in every reachable state an adjustment, by +1 or -1, of a null
\* location id or of a location without a row raises no error and returns
\* every cafe_count as it was.
C25_MissingLocationIsNoOp ==
  \A l \in (Locations \cup {None}) \ DOMAIN cafe_count, delta \in {0 - 1, 1} :
    /\ ~CountUpdateRejected(cafe_count, l, delta)
    /\ update_location_cafe_count(cafe_count, l, delta) = cafe_count

\* C25 witness: a location is gone, another counts a cafe, and the last
\* adjustment raised nothing.
C25_Witness ==
  /\ status = 200
  /\ DOMAIN cafe_count # Locations
  /\ \E l \in DOMAIN cafe_count : cafe_count[l] > 0

\* The requests whose next step is the aggregate query of update_rating_stats.
AtStats == {p \in Procs : pc[p] = "stats_read"}

\* The cafe object worker p holds differs from the stored row.
HoldsStale(p) ==
  /\ ~req[p].lazy_cafe
  /\ req[p].inst.id \in DOMAIN cafes
  /\ \/ req[p].inst.is_active # cafes[req[p].inst.id].is_active
     \/ req[p].inst.location_id # cafes[req[p].inst.id].location_id

\* C26: whenever a request is about to run update_rating_stats, running it to
\* its end leaves every Review row as it was, every other cafe as it was, and
\* the location and is_active of its own cafe as they were, also when the
\* cafe object it runs on is stale.
C26_StatsSaveWritesOnlyRatings ==
  \A p \in AtStats :
    LET e == Run(Cur(p))
        c == req[p].review.cafe
    IN /\ e.db.reviews = reviews
       /\ DOMAIN e.db.cafes = DOMAIN cafes
       /\ \A d \in DOMAIN cafes : d # c => e.db.cafes[d] = cafes[d]
       /\ c \in DOMAIN cafes =>
            /\ e.db.cafes[c].location_id = cafes[c].location_id
            /\ e.db.cafes[c].is_active = cafes[c].is_active

\* C26 witness: update_rating_stats is about to run on a stale cafe object
\* and will store new ratings.
C26_Witness ==
  \E p \in AtStats :
    /\ HoldsStale(p)
    /\ Run(Cur(p)).db.cafes[req[p].review.cafe].stats # cafes[req[p].review.cafe].stats

\* C28 as stated: whenever a request is about to run update_rating_stats,
\* running it to its end leaves every location's cafe_count as it was, also
\* when the cafe object it runs on is stale.
C28_StatsSaveKeepsCounts ==
  \A p \in AtStats : Run(Cur(p)).db.cafe_count = cafe_count

\* C27: no location's cafe_count is negative in any reachable state, whatever
\* cafe creates, updates and deletes have run or are running.
C27_CountNeverNegative == \A l \in DOMAIN cafe_count : cafe_count[l] >= 0

\* C27 witness: a handler's next step is a decrement of a count that stands
\* at zero, which the database refuses.
C27_Witness ==
  \E p \in Procs :
    /\ pc[p] = "post_save"
    /\ Head(req[p].todo)[2] < 0
    /\ cafe_count[Head(req[p].todo)[1]] = 0
    /\ CountUpdateStep(Cur(p)).status = 500

C30_SoftDeletedStaysDeleted ==
  [][\A r \in reviews :
       ~r.is_active =>
         /\ \E x \in reviews' : x.id = r.id /\ ~x.is_active
         /\ \A x \in reviews' : (x.user = r.user /\ x.cafe = r.cafe) => x.id = r.id]_vars
====
